---- MODULE Spec2Model ----
(***************************************************************************)
(* A model of the Service Workbench API client (src/src/swb.js, class SWB). *)
(*                                                                         *)
(* The client is a flat facade over fetch(): every public method builds a  *)
(* request, hands it to the transport and wires promise continuations.     *)
(* The model keeps the session fields (#token, #authProviders, dryrun),    *)
(* one record per invocation in progress (its promise, its position in the *)
(* chain of continuations, its local data, the requests it handed to the   *)
(* transport), and the remote user collection the read-modify-write        *)
(* methods work on.  The remote service is the environment: each round     *)
(* trip is answered by a network failure, a body that is not JSON, or a    *)
(* JSON body.                                                              *)
(***************************************************************************)
EXTENDS Naturals, Sequences, FiniteSets, TLC

VARIABLES
    token,          \* SWB.#token
    authProviders,  \* SWB.#authProviders (cache of authentication providers)
    dryrun,         \* SWB.dryrun
    calls,          \* the invocations of public methods the host holds
    srvUsers        \* the remote user collection (GET /api/users)

vars == <<token, authProviders, dryrun, calls, srvUsers>>

-----------------------------------------------------------------------------
(* Bounds of the model.                                                     *)

\* invocations in progress at a time under Spec (1: the host awaits each
\* call before it makes the next, as in the README)
MaxCalls == 1
\* invocations in progress at a time under SpecLogin
MaxLoginCalls == 2
\* invocations of getIdp in progress at a time under SpecIdp
MaxIdpCalls == 2
\* invocations of addRemoveProjectUser in progress at a time under SpecProj
MaxProjCalls == 1
\* longest project-id list the remote user record holds at first
MaxProjects == 2
\* invocations of the study methods in progress at a time under SpecStudy
MaxStudyCalls == 1

-----------------------------------------------------------------------------
(* Values.                                                                  *)

\* a JavaScript string is a sequence of UTF-16 code units
Comma == 44
IdA == <<97>>
IdB == <<98>>
IdAB == <<97, Comma, 98>>
ProjectIds == {IdA, IdB}

Undefined == "undefined"
Tokens == {"T1", "T2"}

\* the values a promise carries, an argument record or a local: every record
\* has a kind, and a field name always holds values of one type
NoVal == [kind |-> "none"]
UndefinedVal == [kind |-> "undefined"]

-----------------------------------------------------------------------------
(* Array and string primitives of the language, as the code uses them.      *)

\* a < b in the order of String comparison: code unit by code unit, a proper
\* prefix first (the default order of Array.prototype.sort)
RECURSIVE StrLess(_, _)
StrLess(a, b) ==
    IF b = <<>> THEN FALSE
    ELSE IF a = <<>> THEN TRUE
    ELSE IF Head(a) # Head(b) THEN Head(a) < Head(b)
    ELSE StrLess(Tail(a), Tail(b))

\* insert x into the sorted list s after every element not greater than it
RECURSIVE SortInsert(_, _)
SortInsert(s, x) ==
    IF s = <<>> THEN <<x>>
    ELSE IF StrLess(x, Head(s)) THEN <<x>> \o s
    ELSE <<Head(s)>> \o SortInsert(Tail(s), x)

\* Array.prototype.sort() without a comparator (stable, ascending)
RECURSIVE ArraySort(_)
ArraySort(s) ==
    IF s = <<>> THEN <<>>
    ELSE SortInsert(ArraySort(SubSeq(s, 1, Len(s) - 1)), s[Len(s)])

\* Array.prototype.join() without a separator: the elements with "," between
RECURSIVE ArrayJoin(_)
ArrayJoin(s) ==
    IF s = <<>> THEN <<>>
    ELSE IF Len(s) = 1 THEN s[1]
    ELSE s[1] \o <<Comma>> \o ArrayJoin(Tail(s))

\* how many entries of s equal x
RECURSIVE Count(_, _)
Count(s, x) ==
    IF s = <<>> THEN 0
    ELSE (IF Head(s) = x THEN 1 ELSE 0) + Count(Tail(s), x)

\* all sequences over S of length at most n
RECURSIVE SeqsUpTo(_, _)
SeqsUpTo(S, n) ==
    IF n = 0 THEN {<<>>}
    ELSE LET shorter == SeqsUpTo(S, n - 1)
         IN  shorter \cup {Append(s, x) : s \in shorter, x \in S}

\* Array.prototype.find over the indices of s: the first index whose element
\* satisfies P, 0 when none does (find then yields undefined)
FindIndex(s, P(_)) ==
    IF \E i \in 1..Len(s) : P(s[i])
    THEN CHOOSE i \in 1..Len(s) : P(s[i]) /\ \A j \in 1..(i - 1) : ~P(s[j])
    ELSE 0

\* String.prototype.toLowerCase() on the code units the model uses
ToLowerCase(s) ==
    [i \in DOMAIN s |-> IF s[i] \in 65..90 THEN s[i] + 32 ELSE s[i]]

-----------------------------------------------------------------------------
(* The remote service's records, as far as the client reads them.           *)

EmailLower == <<97, 64, 98>>
EmailUpper == <<65, 64, 66>>

\* the record of the user the read-modify-write methods are aimed at
User1(list) ==
    [kind |-> "user", uid |-> "u-1", email |-> EmailLower,
     identityProviderName |-> "idpX", firstName |-> "Ann", lastName |-> "Lee",
     status |-> "active", userRole |-> "researcher", projectId |-> list,
     rev |-> 1, applyReason |-> "N/A", isAdmin |-> FALSE,
     isExternalUser |-> TRUE]

\* another record of the collection, in front of it
User2 ==
    [kind |-> "user", uid |-> "u-2", email |-> EmailUpper,
     identityProviderName |-> "idpY", firstName |-> "Bob", lastName |-> "Ray",
     status |-> "inactive", userRole |-> "admin", projectId |-> <<IdB>>,
     rev |-> 1, applyReason |-> "N/A", isAdmin |-> TRUE,
     isExternalUser |-> TRUE]

\* the caller's own profile (GET /api/user)
Profile == [kind |-> "profile", uid |-> "u-0"]

\* provider lists the public configuration endpoint may answer with
ProvidersV1 == <<[id |-> "idpX", title |-> "v1"]>>
ProvidersV2 == <<[id |-> "idpY", title |-> "v2"], [id |-> "idpX", title |-> "v2"]>>
NullJson == [kind |-> "null", items |-> <<>>]
ProviderResponses ==
    {NullJson, [kind |-> "array", items |-> ProvidersV1],
     [kind |-> "array", items |-> ProvidersV2]}
IdpNames == {"idpX", "idpZ"}

\* a JSON body carrying an error code, as the service answers a refused request
ErrorJson == [kind |-> "error", code |-> "forbidden", message |-> "refused"]

-----------------------------------------------------------------------------
(* Invocations and requests.                                                *)

\* a slot the host holds no invocation in
IdleCall ==
    [op |-> "none", pc |-> "idle", state |-> "none", val |-> NoVal,
     arg |-> NoVal, got |-> NoVal, seen |-> NoVal, u |-> NoVal,
     body |-> NoVal, tok |-> Undefined, err |-> "none", reqs |-> {}]

\* an invocation is over once no continuation of it is left to run
Over(call) == call.pc \in {"idle", "done"}

\* the host makes its next invocation in the first slot whose invocation is
\* over, and forgets that one
CanStart(c) ==
    /\ Over(calls[c])
    /\ \A d \in DOMAIN calls : d < c => ~Over(calls[d])

\* an invocation that has just been made: it has returned a pending promise
Started(op, arg, pc) ==
    [IdleCall EXCEPT !.op = op, !.arg = arg, !.pc = pc, !.state = "pending"]

\* the n-th request of an invocation, as handed to fetch()
Request(n, method, path, param, auth) ==
    [n |-> n, method |-> method, path |-> path, param |-> param, auth |-> auth]

\* fetch(path, {headers: {..., Authorization: auth}, method}) by an invocation
Fetch(call, n, method, path, param, auth) ==
    [call EXCEPT !.reqs = @ \cup {Request(n, method, path, param, auth)}]

\* resolve(v) / reject(v) on the promise the invocation returned
Resolved(call, v) == [call EXCEPT !.pc = "done", !.state = "resolved", !.val = v]
Rejected(call, v) == [call EXCEPT !.pc = "done", !.state = "rejected", !.val = v]

\* a continuation threw or its input promise rejected, and nothing in the
\* chain handles it: the promise the invocation returned is left as it was
ChainBroken(call, cause) == [call EXCEPT !.pc = "done", !.err = cause]

\* the rejection value of a failed round trip
Failure(cause) == [kind |-> "failure", cause |-> cause]

\* how a round trip whose body is read with response.json() can fail
TransportFailures == {"network", "json"}

\* the state after construction
Constructed(slots) ==
    /\ token = Undefined
    /\ authProviders = UndefinedVal
    /\ dryrun = FALSE
    /\ calls = [c \in 1..slots |-> IdleCall]

Init ==
    /\ Constructed(MaxCalls)
    /\ srvUsers \in {<<User2, User1(l)>> : l \in {<<IdA>>, <<IdB, IdAB>>}}

-----------------------------------------------------------------------------
(* The host sets the public field dryrun.                                   *)

SetDryrun ==
    /\ dryrun' = ~dryrun
    /\ UNCHANGED <<token, authProviders, calls, srvUsers>>

-----------------------------------------------------------------------------
(* login()                                                                  *)

\* the call itself: the credential POST, without an Authorization header
Login(c) ==
    /\ CanStart(c)
    /\ calls' = [calls EXCEPT ![c] =
           Fetch(Started("login", NoVal, "credentials"), 1, "POST",
                 "/api/authentication/id-tokens", NoVal, "absent")]
    /\ UNCHANGED <<token, authProviders, dryrun, srvUsers>>

\* LoginStoreToken with the header built before the assignment
LoginStoreTokenLate(c, t) ==
    /\ token' = t
    /\ calls' = [calls EXCEPT ![c] =
           Fetch([calls[c] EXCEPT !.tok = t, !.pc = "profile"], 2, "GET",
                 "/api/user", NoVal, token)]

\* the credential POST is answered with status 200 and {idToken: t}: the
\* token is stored and the profile GET is issued with the stored token
LoginStoreToken(c, t) ==
    /\ token' = t
    /\ calls' = [calls EXCEPT ![c] =
           Fetch([calls[c] EXCEPT !.tok = t, !.pc = "profile"], 2, "GET",
                 "/api/user", NoVal, token')]

\* the credential POST fails, is answered with another status than 200 (the
\* continuation throws), or is answered with a body that is not JSON
LoginCredentialsFailed(c, cause) ==
    /\ calls' = [calls EXCEPT ![c] = ChainBroken(calls[c], cause)]
    /\ UNCHANGED token

LoginCredentialsAnswered(c) ==
    /\ calls[c].op = "login"
    /\ calls[c].pc = "credentials"
    /\ \/ \E t \in Tokens : LoginStoreToken(c, t)
       \/ \E cause \in TransportFailures \cup {"status"} :
            LoginCredentialsFailed(c, cause)
    /\ UNCHANGED <<authProviders, dryrun, srvUsers>>

\* the profile GET is answered and parsed: resolve(u)
LoginProfile(c, data) ==
    calls' = [calls EXCEPT ![c] = Resolved([calls[c] EXCEPT !.got = data], data)]

\* LoginProfileAnswered with the stored token dropped when the profile GET
\* fails
LoginProfileAnsweredAtomic(c) ==
    /\ calls[c].op = "login"
    /\ calls[c].pc = "profile"
    /\ \/ /\ \E data \in {Profile, ErrorJson} : LoginProfile(c, data)
          /\ token' = token
       \/ /\ \E cause \in TransportFailures :
               calls' = [calls EXCEPT ![c] = ChainBroken(calls[c], cause)]
          /\ token' = Undefined
    /\ UNCHANGED <<authProviders, dryrun, srvUsers>>

LoginProfileAnswered(c) ==
    /\ calls[c].op = "login"
    /\ calls[c].pc = "profile"
    /\ \/ \E data \in {Profile, ErrorJson} : LoginProfile(c, data)
       \/ \E cause \in TransportFailures :
            calls' = [calls EXCEPT ![c] = ChainBroken(calls[c], cause)]
    /\ UNCHANGED <<token, authProviders, dryrun, srvUsers>>

-----------------------------------------------------------------------------
(* getIdp(name)                                                             *)

\* !this.#authProviders: undefined and null are falsy, an array is not
Falsy(cache) == cache.kind \in {"undefined", "null"}

\* FindIdp with a predicate that accepts any provider
FindIdpAny(items, name) ==
    IF items = <<>> THEN UndefinedVal ELSE [kind |-> "idp", idp |-> items[1]]

\* this.#authProviders.find(idp => idp.id === name)
FindIdp(items, name) ==
    LET i == FindIndex(items, LAMBDA idp : idp.id = name)
    IN  IF i = 0 THEN UndefinedVal ELSE [kind |-> "idp", idp |-> items[i]]

\* the executor of the promise getIdp returns: find on the cache as it is now
\* (seen); on a cache that is no array the executor throws and the promise
\* rejects
GetIdpResult(call, cache, name) ==
    IF cache.kind = "array"
    THEN Resolved([call EXCEPT !.seen = cache], FindIdp(cache.items, name))
    ELSE Rejected([call EXCEPT !.seen = cache], Failure("TypeError"))

\* GetIdp without the test of the cache
GetIdpUncached(c, name) ==
    /\ CanStart(c)
    /\ calls' = [calls EXCEPT ![c] =
           Fetch(Started("getIdp", [kind |-> "name", name |-> name], "providers"),
                 1, "GET", "/api/authentication/public/provider/configs", NoVal,
                 "absent")]
    /\ UNCHANGED <<token, authProviders, dryrun, srvUsers>>

\* the call itself: with a cache it answers from it, without one it fetches
\* the provider list (no headers) and waits
GetIdp(c, name) ==
    /\ CanStart(c)
    /\ LET call == Started("getIdp", [kind |-> "name", name |-> name], "providers")
       IN  calls' = [calls EXCEPT ![c] =
               IF Falsy(authProviders)
               THEN Fetch(call, 1, "GET",
                          "/api/authentication/public/provider/configs", NoVal,
                          "absent")
               ELSE GetIdpResult(call, authProviders, name)]
    /\ UNCHANGED <<token, authProviders, dryrun, srvUsers>>

\* the provider list arrives and is stored (data => {this.#authProviders = data})
GetIdpStore(c, data) ==
    /\ authProviders' = data
    /\ calls' = [calls EXCEPT ![c].pc = "resume", ![c].got = data]

\* the awaited chain rejects: the async function's promise rejects with it
GetIdpFetchFailed(c, cause) ==
    /\ calls' = [calls EXCEPT ![c] =
           Rejected([calls[c] EXCEPT !.err = cause], Failure(cause))]
    /\ UNCHANGED authProviders

GetIdpProvidersAnswered(c) ==
    /\ calls[c].op = "getIdp"
    /\ calls[c].pc = "providers"
    /\ \/ \E data \in ProviderResponses : GetIdpStore(c, data)
       \/ \E cause \in TransportFailures : GetIdpFetchFailed(c, cause)
    /\ UNCHANGED <<token, dryrun, srvUsers>>

\* the function resumes after its await and answers from the cache
GetIdpResume(c) ==
    /\ calls[c].op = "getIdp"
    /\ calls[c].pc = "resume"
    /\ calls' = [calls EXCEPT
                   ![c] = GetIdpResult(calls[c], authProviders, calls[c].arg.name)]
    /\ UNCHANGED <<token, authProviders, dryrun, srvUsers>>

-----------------------------------------------------------------------------
(* The continuation most methods end with:                                  *)
(*     .then(r => r.json()).then(p => resolve(p))                           *)

\* what the service answers a request of this method with, when it accepts it
ServiceData(op) == [kind |-> "json", of |-> op]

\* the round trip of an invocation waiting at "json" ends: the parsed body,
\* whatever it is, resolves the promise; a failure breaks the chain
JsonAnswered(c) ==
    /\ calls[c].pc = "json"
    /\ \/ \E data \in {ServiceData(calls[c].op), ErrorJson} :
            calls' = [calls EXCEPT ![c] = Resolved(calls[c], data)]
       \/ \E cause \in TransportFailures :
            calls' = [calls EXCEPT ![c] = ChainBroken(calls[c], cause)]
    /\ UNCHANGED <<token, authProviders, dryrun, srvUsers>>

\* a mutating method after it has built its body: under dryrun the promise
\* resolves with the body, otherwise the write is handed to fetch()
WriteOrDryRun(call, method, path, param, body) ==
    IF dryrun
    THEN Resolved([call EXCEPT !.body = body], body)
    ELSE Fetch([call EXCEPT !.body = body], 1, method, path, param, token)

\* a method that only reads: one GET with the session token
ReadRequest(c, op, arg, path, param) ==
    /\ CanStart(c)
    /\ calls' = [calls EXCEPT ![c] =
           Fetch(Started(op, arg, "json"), 1, "GET", path, param, token)]
    /\ UNCHANGED <<token, authProviders, dryrun, srvUsers>>

-----------------------------------------------------------------------------
(* addFederatedUser(idp, adpUrl, email, role = "researcher")                *)

AddFederatedUserBody(idp, adpUrl, email, role) ==
    [kind |-> "newUser", email |-> ToLowerCase(email),
     identityProviderName |-> idp.id, projectId |-> <<>>, userRole |-> role,
     authenticationProviderId |-> adpUrl, username |-> ToLowerCase(email)]

AddFederatedUser(c, idp, adpUrl, email, role) ==
    /\ CanStart(c)
    /\ calls' = [calls EXCEPT ![c] =
           WriteOrDryRun(Started("addFederatedUser", NoVal, "json"), "POST",
                         "/api/users", NoVal,
                         AddFederatedUserBody(idp, adpUrl, email, role))]
    /\ UNCHANGED <<token, authProviders, dryrun, srvUsers>>

-----------------------------------------------------------------------------
(* The user collection: GET /api/users, then a scan.                        *)

Uids == {"u-1", "u-9"}

\* users.find(u => u.uid === uid): the index, 0 for undefined
FindUid(users, uid) == FindIndex(users, LAMBDA u : u.uid = uid)

\* the service stores the fields a PUT /api/users/{uid} carries
ServicePutUser(users, uid, body) ==
    [i \in DOMAIN users |->
        IF users[i].uid = uid
        THEN [users[i] EXCEPT !.firstName = body.firstName,
                              !.lastName = body.lastName,
                              !.status = body.status,
                              !.userRole = body.userRole,
                              !.projectId = body.projectId]
        ELSE users[i]]

\* the call of a method that first fetches the collection
FetchUsers(c, op, arg) ==
    /\ CanStart(c)
    /\ calls' = [calls EXCEPT ![c] =
           Fetch(Started(op, arg, "users"), 1, "GET", "/api/users", NoVal, token)]
    /\ UNCHANGED <<token, authProviders, dryrun, srvUsers>>

\* the second request of a read-modify-write: the PUT of the built record
PutUser(call, uid, body) ==
    Fetch([call EXCEPT !.body = body, !.pc = "put"], 2, "PUT", "/api/users/{uid}",
          [kind |-> "uid", uid |-> uid], token)

-----------------------------------------------------------------------------
(* getUserByEmailAndIdp(email, idpName)                                     *)

GetUserByEmailAndIdp(c, email, idpName) ==
    FetchUsers(c, "getUserByEmailAndIdp",
               [kind |-> "lookup", email |-> email, idpName |-> idpName])

\* the scan of the fetched collection
GetUserByEmailAndIdpScan(call, users) ==
    LET i == FindIndex(users, LAMBDA u : u.email = call.arg.email
                                       /\ u.identityProviderName = call.arg.idpName)
    IN  IF i # 0
        THEN Resolved(call, users[i])
        ELSE Rejected(call, [kind |-> "notFound", email |-> call.arg.email,
                             idpName |-> call.arg.idpName])

GetUserByEmailAndIdpAnswered(c) ==
    /\ calls[c].op = "getUserByEmailAndIdp"
    /\ calls[c].pc = "users"
    /\ \/ calls' = [calls EXCEPT ![c] = GetUserByEmailAndIdpScan(calls[c], srvUsers)]
       \/ \E cause \in TransportFailures :
            calls' = [calls EXCEPT ![c] = ChainBroken(calls[c], cause)]
    /\ UNCHANGED <<token, authProviders, dryrun, srvUsers>>

-----------------------------------------------------------------------------
(* updateUserDetails(uid, firstname, surname, status, userRole)             *)

UpdateUserDetails(c, uid, firstname, surname, status, userRole) ==
    FetchUsers(c, "updateUserDetails",
               [kind |-> "details", uid |-> uid, firstName |-> firstname,
                lastName |-> surname, status |-> status, userRole |-> userRole])

UpdateUserDetailsBody(u, arg) ==
    [kind |-> "userUpdate", applyReason |-> u.applyReason, email |-> u.email,
     firstName |-> arg.firstName, isAdmin |-> u.isAdmin,
     isExternalUser |-> u.isExternalUser, lastName |-> arg.lastName,
     projectId |-> u.projectId, rev |-> u.rev, status |-> arg.status,
     userRole |-> arg.userRole]

\* the collection arrives: find, build, then dryrun or PUT
UpdateUserDetailsFetched(call, users) ==
    LET i == FindUid(users, call.arg.uid)
    IN  IF i = 0
        THEN Rejected(call, [kind |-> "message",
                             text |-> "uid not found while adding project"])
        ELSE LET u2 == UpdateUserDetailsBody(users[i], call.arg)
                 built == [call EXCEPT !.u = users[i], !.body = u2]
             IN  IF dryrun THEN Resolved(built, u2)
                 ELSE PutUser(built, call.arg.uid, u2)

UpdateUserDetailsAnswered(c) ==
    /\ calls[c].op = "updateUserDetails"
    /\ calls[c].pc = "users"
    /\ \/ calls' = [calls EXCEPT ![c] = UpdateUserDetailsFetched(calls[c], srvUsers)]
       \/ \E cause \in TransportFailures :
            calls' = [calls EXCEPT ![c] = ChainBroken(calls[c], cause)]
    /\ UNCHANGED <<token, authProviders, dryrun, srvUsers>>

\* the PUT ends: .then(u => resolve(u)) resolves with the response itself,
\* whatever its status and body; only a network failure breaks the chain
UpdateUserDetailsPutAnswered(c) ==
    /\ calls[c].op = "updateUserDetails"
    /\ calls[c].pc = "put"
    /\ \/ /\ calls' = [calls EXCEPT ![c] =
                Resolved(calls[c], [kind |-> "response", of |-> "updateUserDetails"])]
          /\ srvUsers' = ServicePutUser(srvUsers, calls[c].arg.uid, calls[c].body)
       \/ /\ calls' = [calls EXCEPT ![c] =
                Resolved(calls[c], [kind |-> "response", of |-> "updateUserDetails"])]
          /\ srvUsers' = srvUsers
       \/ /\ calls' = [calls EXCEPT ![c] = ChainBroken(calls[c], "network")]
          /\ srvUsers' = srvUsers
    /\ UNCHANGED <<token, authProviders, dryrun>>

-----------------------------------------------------------------------------
(* addRemoveProjectUser(projectId, uid, action = "add")                     *)

Actions == {"add", "remove", "clear"}

AddRemoveProjectUser(c, projectId, uid, action) ==
    FetchUsers(c, "addRemoveProjectUser",
               [kind |-> "membership", projectId |-> projectId, uid |-> uid,
                action |-> action])

\* ProjectListAfter without the filter
ProjectListAfterUnfiltered(list, projectId, action) ==
    IF action = "add" THEN Append(list, projectId) ELSE list

\* u2.projectId after the filter and the conditional push
ProjectListAfter(list, projectId, action) ==
    LET kept == SelectSeq(list, LAMBDA id : id # projectId)
    IN  IF action = "add" THEN Append(kept, projectId) ELSE kept

\* the object built from the fetched record, with its list replaced
AddRemoveProjectUserBody(u, projectId, action) ==
    [kind |-> "userUpdate", applyReason |-> u.applyReason, email |-> u.email,
     firstName |-> u.firstName, isAdmin |-> u.isAdmin,
     isExternalUser |-> u.isExternalUser, lastName |-> u.lastName,
     projectId |-> ProjectListAfter(u.projectId, projectId, action),
     rev |-> u.rev, status |-> u.status, userRole |-> u.userRole]

\* x.projectId.sort() sorts the record's own array: the record holds the
\* sorted list from then on
SortedInPlace(x) == [x EXCEPT !.projectId = ArraySort(x.projectId)]

\* SameProjects without the two sorts
SameProjectsUnsorted(u, u2) == ArrayJoin(u.projectId) = ArrayJoin(u2.projectId)

\* u.projectId.sort().join() === u2.projectId.sort().join()
SameProjects(u, u2) ==
    ArrayJoin(ArraySort(u.projectId)) = ArrayJoin(ArraySort(u2.projectId))

\* what resolve(u) hands over after the comparison has run on u
ShortCircuit(call, u) == Resolved(call, SortedInPlace(u))

\* the collection arrives: find, build, compare, then short-circuit, dryrun
\* or PUT; got keeps the record as it was parsed from the response
AddRemoveProjectUserFetched(call, users) ==
    LET arg == call.arg
        i == FindUid(users, arg.uid)
    IN  IF i = 0
        THEN Rejected(call, [kind |-> "uidNotFound", uid |-> arg.uid,
                             action |-> arg.action, projectId |-> arg.projectId])
        ELSE LET made == AddRemoveProjectUserBody(users[i], arg.projectId, arg.action)
                 u2 == SortedInPlace(made)
                 built == [call EXCEPT !.got = users[i],
                                       !.u = SortedInPlace(users[i]),
                                       !.body = u2]
             IN  IF SameProjects(users[i], made) THEN ShortCircuit(built, users[i])
                 ELSE IF dryrun THEN Resolved(built, u2)
                 ELSE PutUser(built, arg.uid, u2)

AddRemoveProjectUserAnswered(c) ==
    /\ calls[c].op = "addRemoveProjectUser"
    /\ calls[c].pc = "users"
    /\ \/ calls' = [calls EXCEPT ![c] = AddRemoveProjectUserFetched(calls[c], srvUsers)]
       \/ \E cause \in TransportFailures :
            calls' = [calls EXCEPT ![c] = ChainBroken(calls[c], cause)]
    /\ UNCHANGED <<token, authProviders, dryrun, srvUsers>>

\* the service accepts the PUT and answers with the stored record
AddRemoveProjectUserStored(c) ==
    /\ srvUsers' = ServicePutUser(srvUsers, calls[c].arg.uid, calls[c].body)
    /\ calls' = [calls EXCEPT ![c] =
           Resolved(calls[c], srvUsers'[FindUid(srvUsers', calls[c].arg.uid)])]

\* the PUT ends: stored and answered, refused with an error body (which
\* resolves the promise like any JSON), or failed
AddRemoveProjectUserPutAnswered(c) ==
    /\ calls[c].op = "addRemoveProjectUser"
    /\ calls[c].pc = "put"
    /\ \/ AddRemoveProjectUserStored(c)
       \/ /\ calls' = [calls EXCEPT ![c] = Resolved(calls[c], ErrorJson)]
          /\ srvUsers' = srvUsers
       \/ /\ \E cause \in TransportFailures :
               calls' = [calls EXCEPT ![c] = ChainBroken(calls[c], cause)]
          /\ srvUsers' = srvUsers
    /\ UNCHANGED <<token, authProviders, dryrun>>

-----------------------------------------------------------------------------
(* Projects.                                                                *)

ProjectParam == [kind |-> "project", id |-> IdA]

\* a project as getProject returns it
Project1 ==
    [kind |-> "project", id |-> IdA, description |-> "first", indexId |-> "ix",
     projectAdmins |-> <<"u-1">>, rev |-> 1, createdBy |-> "u-0",
     updatedBy |-> "u-0"]

GetProject(c) == ReadRequest(c, "getProject", NoVal, "/api/projects/{id}", ProjectParam)

GetProjects(c) == ReadRequest(c, "getProjects", NoVal, "/api/projects", NoVal)

UpdateProjectBody(proj) ==
    [kind |-> "projectUpdate", description |-> proj.description, id |-> proj.id,
     indexId |-> proj.indexId, projectAdmins |-> proj.projectAdmins,
     rev |-> proj.rev]

UpdateProject(c, proj) ==
    /\ CanStart(c)
    /\ calls' = [calls EXCEPT ![c] =
           WriteOrDryRun(Started("updateProject", NoVal, "json"), "PUT",
                         "/api/projects/{id}", [kind |-> "project", id |-> proj.id],
                         UpdateProjectBody(proj))]
    /\ UNCHANGED <<token, authProviders, dryrun, srvUsers>>

CreateProjectBody(projectId, description, index, admins) ==
    [kind |-> "newProject", id |-> projectId, description |-> description,
     indexId |-> index.id,
     projectAdmins |-> [i \in DOMAIN admins |-> admins[i].uid]]

CreateProject(c, projectId, description, index, admins) ==
    /\ CanStart(c)
    /\ calls' = [calls EXCEPT ![c] =
           WriteOrDryRun(Started("createProject", NoVal, "json"), "POST",
                         "/api/projects", NoVal,
                         CreateProjectBody(projectId, description, index, admins))]
    /\ UNCHANGED <<token, authProviders, dryrun, srvUsers>>

-----------------------------------------------------------------------------
(* Studies and their permissions.                                           *)

Categories == {"Organization", "My Studies", "Mine"}
StudyTypes == {"unstructured", "structured", "raw"}
PermissionLevels == {"readonly", "admin", "owner"}

StudyParam == [kind |-> "study", study |-> "s-1"]

\* Thrown with the request handed to fetch() before the argument is looked at
ThrownAfterFetch(op, arg, text) ==
    Fetch([IdleCall EXCEPT !.op = op, !.arg = arg, !.pc = "done",
                           !.state = "thrown",
                           !.val = [kind |-> "message", text |-> text]],
          1, "GET", "/api/studies", NoVal, token)

\* a method throws before it returns a promise
Thrown(op, arg, text) ==
    [IdleCall EXCEPT !.op = op, !.arg = arg, !.pc = "done", !.state = "thrown",
                     !.val = [kind |-> "message", text |-> text]]

\* encodeURI on the categories that pass the check
EncodeURI(category) ==
    IF category = "My Studies" THEN "My%20Studies" ELSE category

GetStudies(c, category) ==
    /\ CanStart(c)
    /\ LET arg == [kind |-> "category", category |-> category]
       IN  calls' = [calls EXCEPT ![c] =
               IF category \notin {"Organization", "My Studies"}
               THEN Thrown("getStudies", arg, "Invalid category type.")
               ELSE Fetch(Started("getStudies", arg, "json"), 1, "GET",
                          "/api/studies/?category=",
                          [kind |-> "query", text |-> EncodeURI(category)], token)]
    /\ UNCHANGED <<token, authProviders, dryrun, srvUsers>>

GetStudy(c) == ReadRequest(c, "getStudy", NoVal, "/api/studies/{id}", StudyParam)

CreateStudyBody(id, name, description, projectId, category, studyType, upload) ==
    [kind |-> "newStudy", study |-> id, studyType |-> studyType, name |-> name,
     description |-> description, projectId |-> <<projectId>>,
     category |-> category, uploadLocationEnabled |-> upload]

CreateStudy(c, id, name, description, projectId, category, studyType, upload) ==
    /\ CanStart(c)
    /\ LET arg == [kind |-> "study", category |-> category, studyType |-> studyType]
       IN  calls' = [calls EXCEPT ![c] =
               IF category \notin {"Organization", "My Studies"}
               THEN Thrown("createStudy", arg, "Invalid category type.")
               ELSE IF studyType \notin {"unstructured", "structured"}
               THEN Thrown("createStudy", arg, "Invalid study type")
               ELSE WriteOrDryRun(Started("createStudy", arg, "json"), "POST",
                                  "/api/studies", NoVal,
                                  CreateStudyBody(id, name, description, projectId,
                                                  category, studyType, upload))]
    /\ UNCHANGED <<token, authProviders, dryrun, srvUsers>>

GetStudyPermissions(c) ==
    ReadRequest(c, "getStudyPermissions", NoVal, "/api/studies/{id}/permissions",
                StudyParam)

AddRemoveStudyPermissionBody(userId, action, permissionLevel) ==
    LET entry == <<[uid |-> userId, permissionLevel |-> permissionLevel]>>
    IN  [kind |-> "permissionUpdate",
         usersToAdd |-> IF action = "add" THEN entry ELSE <<>>,
         usersToRemove |-> IF action = "add" THEN <<>> ELSE entry]

AddRemoveStudyPermission(c, studyId, userId, action, permissionLevel) ==
    /\ CanStart(c)
    /\ LET arg == [kind |-> "permission", action |-> action,
                   permissionLevel |-> permissionLevel]
       IN  calls' = [calls EXCEPT ![c] =
               IF permissionLevel \notin {"readonly", "admin"}
               THEN Thrown("addRemoveStudyPermission", arg, "Invalid permission level")
               ELSE IF action \notin {"add", "remove"}
               THEN Thrown("addRemoveStudyPermission", arg, "Invalid action")
               ELSE WriteOrDryRun(
                        Started("addRemoveStudyPermission", arg, "permissions"),
                        "PUT", "/api/studies/{id}/permissions",
                        [kind |-> "study", study |-> studyId],
                        AddRemoveStudyPermissionBody(userId, action, permissionLevel))]
    /\ UNCHANGED <<token, authProviders, dryrun, srvUsers>>

\* the PUT ends: a body with a code rejects with its message
AddRemoveStudyPermissionAnswered(c) ==
    /\ calls[c].op = "addRemoveStudyPermission"
    /\ calls[c].pc = "permissions"
    /\ \/ calls' = [calls EXCEPT ![c] =
              Resolved(calls[c], ServiceData("addRemoveStudyPermission"))]
       \/ calls' = [calls EXCEPT ![c] =
              Rejected(calls[c], [kind |-> "message", text |-> ErrorJson.message])]
       \/ \E cause \in TransportFailures :
            calls' = [calls EXCEPT ![c] = ChainBroken(calls[c], cause)]
    /\ UNCHANGED <<token, authProviders, dryrun, srvUsers>>

-----------------------------------------------------------------------------
(* Workspace types and configurations.                                      *)

WorkspaceParam == [kind |-> "workspaceType", type |-> "wt-1"]

\* a configuration as getWorkspaceConfigurations returns it
Configuration1 ==
    [kind |-> "configuration", id |-> "cfg-1", name |-> "small",
     createdBy |-> "u-0", updatedBy |-> "u-0", createdAt |-> "d1",
     updatedAt |-> "d2", allowedToUse |-> "yes"]

\* one without the fields the service manages
Configuration2 == [kind |-> "configuration", id |-> "cfg-2", name |-> "large"]

GetWorkspaceTypes(c) ==
    ReadRequest(c, "getWorkspaceTypes", NoVal, "/api/workspace-types?status=*", NoVal)

GetWorkspaceConfigurations(c) ==
    ReadRequest(c, "getWorkspaceConfigurations", NoVal,
                "/api/workspace-types/{type}/configurations/?include=all",
                WorkspaceParam)

\* the object after the five deletes
UpdateWorkspaceConfigurationBody(obj) ==
    [f \in DOMAIN obj \ {"createdBy", "updatedBy", "createdAt", "updatedAt",
                         "allowedToUse"} |-> obj[f]]

\* no dryrun check here: the PUT is always handed to fetch()
UpdateWorkspaceConfiguration(c, workspaceType, obj) ==
    /\ CanStart(c)
    /\ calls' = [calls EXCEPT ![c] =
           Fetch([Started("updateWorkspaceConfiguration", NoVal, "json")
                     EXCEPT !.body = UpdateWorkspaceConfigurationBody(obj)],
                 1, "PUT", "/api/workspace-types/{type}/configurations/{id}",
                 [kind |-> "workspaceType", type |-> workspaceType], token)]
    /\ UNCHANGED <<token, authProviders, dryrun, srvUsers>>

-----------------------------------------------------------------------------
(* The client in the hands of a host that may call anything at any time.    *)

Calls == DOMAIN calls

Next ==
    \/ SetDryrun
    \/ \E c \in Calls : Login(c)
    \/ \E c \in Calls : LoginCredentialsAnswered(c)
    \/ \E c \in Calls : LoginProfileAnswered(c)
    \/ \E c \in Calls, name \in IdpNames : GetIdp(c, name)
    \/ \E c \in Calls : GetIdpProvidersAnswered(c)
    \/ \E c \in Calls : GetIdpResume(c)
    \/ \E c \in Calls :
         AddFederatedUser(c, [id |-> "idpX", title |-> "v1"], "adp", EmailUpper,
                          "researcher")
    \/ \E c \in Calls, idpName \in IdpNames :
         GetUserByEmailAndIdp(c, EmailLower, idpName)
    \/ \E c \in Calls : GetUserByEmailAndIdpAnswered(c)
    \/ \E c \in Calls, uid \in Uids :
         UpdateUserDetails(c, uid, "Zed", "Lee", "inactive", "admin")
    \/ \E c \in Calls : UpdateUserDetailsAnswered(c)
    \/ \E c \in Calls : UpdateUserDetailsPutAnswered(c)
    \/ \E c \in Calls, uid \in Uids, action \in {"add", "remove"} :
         AddRemoveProjectUser(c, IdA, uid, action)
    \/ \E c \in Calls : AddRemoveProjectUserAnswered(c)
    \/ \E c \in Calls : AddRemoveProjectUserPutAnswered(c)
    \/ \E c \in Calls : GetProject(c)
    \/ \E c \in Calls : GetProjects(c)
    \/ \E c \in Calls : UpdateProject(c, Project1)
    \/ \E c \in Calls :
         CreateProject(c, IdB, "second", [id |-> "ix"], <<User2>>)
    \/ \E c \in Calls, category \in Categories : GetStudies(c, category)
    \/ \E c \in Calls : GetStudy(c)
    \/ \E c \in Calls, category \in Categories, studyType \in StudyTypes :
         CreateStudy(c, "s-1", "study", "about", IdA, category, studyType, TRUE)
    \/ \E c \in Calls : GetStudyPermissions(c)
    \/ \E c \in Calls, action \in Actions, level \in PermissionLevels :
         AddRemoveStudyPermission(c, "s-1", "u-1", action, level)
    \/ \E c \in Calls : AddRemoveStudyPermissionAnswered(c)
    \/ \E c \in Calls : GetWorkspaceTypes(c)
    \/ \E c \in Calls : GetWorkspaceConfigurations(c)
    \/ \E c \in Calls, obj \in {Configuration1, Configuration2} :
         UpdateWorkspaceConfiguration(c, "wt-1", obj)
    \/ \E c \in Calls : JsonAnswered(c)

Spec == Init /\ [][Next]_vars

-----------------------------------------------------------------------------
(* login() and one authenticated method, on a client used for nothing else. *)

InitLogin ==
    /\ Constructed(MaxLoginCalls)
    /\ srvUsers = <<User2, User1(<<>>)>>

NextLogin ==
    \/ \E c \in Calls : Login(c)
    \/ \E c \in Calls : LoginCredentialsAnswered(c)
    \/ \E c \in Calls : LoginProfileAnswered(c)
    \/ \E c \in Calls : GetProjects(c)
    \/ \E c \in Calls : JsonAnswered(c)

SpecLogin == InitLogin /\ [][NextLogin]_vars

-----------------------------------------------------------------------------
(* getIdp(name) alone: lookups that may overlap.                            *)

InitIdp ==
    /\ Constructed(MaxIdpCalls)
    /\ srvUsers = <<User2, User1(<<>>)>>

NextIdp ==
    \/ \E c \in Calls, name \in IdpNames : GetIdp(c, name)
    \/ \E c \in Calls : GetIdpProvidersAnswered(c)
    \/ \E c \in Calls : GetIdpResume(c)

SpecIdp == InitIdp /\ [][NextIdp]_vars

-----------------------------------------------------------------------------
(* addRemoveProjectUser alone, aimed at the user the collection holds, over *)
(* every project list the remote record may hold at first.                 *)

InitProj ==
    /\ Constructed(MaxProjCalls)
    /\ srvUsers \in {<<User2, User1(l)>> : l \in SeqsUpTo(ProjectIds, MaxProjects)}

NextProj ==
    \/ SetDryrun
    \/ \E c \in Calls, projectId \in ProjectIds, action \in Actions :
         AddRemoveProjectUser(c, projectId, "u-1", action)
    \/ \E c \in Calls : AddRemoveProjectUserAnswered(c)
    \/ \E c \in Calls : AddRemoveProjectUserPutAnswered(c)

SpecProj == InitProj /\ [][NextProj]_vars

-----------------------------------------------------------------------------
(* The three methods that check an enumerated argument, called with every   *)
(* value of it, with dryrun set either way.                                  *)

InitStudy ==
    /\ Constructed(MaxStudyCalls)
    /\ srvUsers = <<User2, User1(<<>>)>>

NextStudy ==
    \/ SetDryrun
    \/ \E c \in Calls, category \in Categories : GetStudies(c, category)
    \/ \E c \in Calls, category \in Categories, studyType \in StudyTypes :
         CreateStudy(c, "s-1", "study", "about", IdA, category, studyType, TRUE)
    \/ \E c \in Calls, action \in Actions, level \in PermissionLevels :
         AddRemoveStudyPermission(c, "s-1", "u-1", action, level)
    \/ \E c \in Calls : AddRemoveStudyPermissionAnswered(c)
    \/ \E c \in Calls : JsonAnswered(c)

SpecStudy == InitStudy /\ [][NextStudy]_vars

-----------------------------------------------------------------------------
(* Properties.                                                              *)

LoginPath == "/api/authentication/id-tokens"
ProvidersPath == "/api/authentication/public/provider/configs"
MutatingOps ==
    {"addFederatedUser", "updateUserDetails", "addRemoveProjectUser",
     "updateProject", "createProject", "createStudy", "addRemoveStudyPermission",
     "updateWorkspaceConfiguration"}

\* the requests invocation slot c hands to fetch() in a step
NewRequests(c) ==
    IF calls'[c] = calls[c] THEN {}
    ELSE IF Over(calls[c]) THEN calls'[c].reqs
    ELSE calls'[c].reqs \ calls[c].reqs

\* the invocation has handed a PUT to fetch()
HasPut(call) == \E r \in call.reqs : r.method = "PUT"

\* C1: with dryrun enabled, no step of a mutating method hands a POST or a PUT
\* to the transport (the method resolves with the body it built instead).
C1_DryRunNoWrite ==
    [][dryrun =>
         \A c \in Calls : \A r \in NewRequests(c) :
             calls'[c].op \in MutatingOps => r.method = "GET"]_vars

\* C2: a method other than login and getIdp never hands a request to the
\* transport while the client holds no token (it fails instead).
C2_TokenRequired ==
    \A c \in Calls :
        calls[c].op \notin {"none", "login", "getIdp"} =>
            \A r \in calls[c].reqs : r.auth # Undefined

\* C3: once the credential request of a login has been answered with a status
\* other than 200, the promise login returned is rejected and the invocation
\* has issued no profile request.
C3_LoginRejectsOnStatus ==
    \A c \in Calls :
        (calls[c].op = "login" /\ calls[c].err = "status") =>
            /\ calls[c].state = "rejected"
            /\ \A r \in calls[c].reqs : r.path = LoginPath

\* the step in which login invocation c handles a successful credential answer
StoresToken(c) ==
    /\ calls[c].op = "login"
    /\ calls[c].pc = "credentials"
    /\ calls'[c].pc = "profile"

\* a login invocation, as far as it has come: before the credential answer it
\* has issued the POST alone and holds no token; once it holds the answered
\* token it has issued exactly one profile GET, carrying that token; it is
\* resolved only after that, with the body that GET was answered with
LoginInOrder(call) ==
    /\ call.pc = "credentials" =>
           call.reqs = {Request(1, "POST", LoginPath, NoVal, "absent")}
    /\ call.tok = Undefined =>
           /\ call.state # "resolved"
           /\ \A r \in call.reqs : r.path # "/api/user"
    /\ call.tok # Undefined =>
           /\ call.tok \in Tokens
           /\ {r \in call.reqs : r.n = 2} =
                  {Request(2, "GET", "/api/user", NoVal, call.tok)}
           /\ Cardinality(call.reqs) = 2
    /\ call.state = "resolved" =>
           /\ call.got.kind # "none"
           /\ call.val = call.got

\* C4: a successful login goes in order: the credential POST is answered, the
\* answered idToken is stored as the session token, exactly one GET of the
\* profile is issued in that same step with that token as its Authorization
\* header, and login resolves with the profile answered; the session token
\* changes in no other step, so it holds the answered token afterwards.
C4_LoginOrder ==
    /\ [](\A c \in Calls : calls[c].op = "login" => LoginInOrder(calls[c]))
    /\ [][/\ \A c \in Calls :
                StoresToken(c) =>
                    /\ token' = calls'[c].tok
                    /\ NewRequests(c) =
                           {Request(2, "GET", "/api/user", NoVal, token')}
          /\ token' # token => \E c \in Calls : StoresToken(c)]_vars

\* a login that resolved with the profile while the session holds its token,
\* which is not the token the session held before it
C4_Witness ==
    \E c \in Calls :
        /\ calls[c].op = "login"
        /\ calls[c].state = "resolved"
        /\ calls[c].val = Profile
        /\ token = calls[c].tok
        /\ \E d \in Calls : calls[d].op = "getProjects"
                            /\ \E r \in calls[d].reqs : r.auth \notin {token, Undefined}

\* the one request getIdp makes
ProvidersRequest == Request(1, "GET", ProvidersPath, NoVal, "absent")

\* the host makes a new invocation in slot c in this step
Starts(c) == Over(calls[c]) /\ calls'[c] # calls[c]

\* the step in which the provider list fetched by invocation c is stored
StoresProviders(c) ==
    /\ calls[c].op = "getIdp"
    /\ calls[c].pc = "providers"
    /\ calls'[c].pc = "resume"

\* C6, as the specification states it: the provider endpoint is requested at
\* most once (of the invocations the host holds, at most one has requested
\* it), and a populated cache is never cleared or overwritten.
C6_FetchedOnce ==
    /\ [](Cardinality({c \in Calls : ProvidersRequest \in calls[c].reqs}) <= 1)
    /\ [][~Falsy(authProviders) => authProviders' = authProviders]_vars

\* C6, amended: a getIdp call made while the cache is populated issues no
\* request and is over at once; one made while it is unset issues exactly one
\* request, and none later; the cache changes only in the step in which one of
\* these fetches completes, and then holds what that fetch was answered with.
C6_FetchedPerUnsetCall ==
    [][/\ \A c \in Calls :
            /\ Starts(c) =>
                   IF Falsy(authProviders)
                   THEN NewRequests(c) = {ProvidersRequest}
                   ELSE NewRequests(c) = {} /\ Over(calls'[c])
            /\ ~Over(calls[c]) => NewRequests(c) = {}
       /\ authProviders' # authProviders =>
              \E c \in Calls : /\ StoresProviders(c)
                               /\ ProvidersRequest \in calls[c].reqs
                               /\ authProviders' = calls'[c].got]_vars

\* the cache is populated; one invocation answered from it without a request,
\* while another, made when it was unset, has requested the list and has yet
\* to store what it is answered with
C6_Witness ==
    /\ ~Falsy(authProviders)
    /\ \E c \in Calls : calls[c].state = "resolved" /\ calls[c].reqs = {}
    /\ \E c \in Calls : calls[c].pc = "providers"

\* a getIdp invocation, as far as it has come: while it waits for the list or
\* is about to resume it has issued its own request; resolved, it has read a
\* populated cache and carries the first entry of it whose id is the name it
\* was called with, or undefined when the cache holds none
GetIdpAnswer(call) ==
    /\ call.pc \in {"providers", "resume"} => call.reqs = {ProvidersRequest}
    /\ call.state = "resolved" =>
           /\ call.seen.kind = "array"
           /\ LET items == call.seen.items
                  hits == {i \in DOMAIN items : items[i].id = call.arg.name}
              IN  IF hits = {}
                  THEN call.val = UndefinedVal
                  ELSE /\ call.val.kind = "idp"
                       /\ \E i \in hits : /\ call.val.idp = items[i]
                                          /\ \A j \in hits : i <= j

\* C7: each getIdp call started before the cache is populated issues its own
\* fetch; the cache holds the list of the fetch that completed last; and a
\* call resolves only with the entry matching its own name (or undefined),
\* read from the cache as populated at that moment.
C7_ConcurrentGetIdp ==
    /\ [](\A c \in Calls : calls[c].op = "getIdp" => GetIdpAnswer(calls[c]))
    /\ [][/\ \A c \in Calls :
                /\ (Starts(c) /\ Falsy(authProviders)) =>
                       NewRequests(c) = {ProvidersRequest}
                /\ StoresProviders(c) => authProviders' = calls'[c].got
                /\ (calls'[c] # calls[c] /\ calls'[c].state = "resolved") =>
                       /\ ~Falsy(authProviders)
                       /\ calls'[c].seen = authProviders
          /\ authProviders' # authProviders =>
                 \E c \in Calls : StoresProviders(c)]_vars

\* two overlapping calls each fetched the list; the one whose own fetch was
\* answered with the first list resolved with the entry of the second list,
\* which the other call's fetch stored later
C7_Witness ==
    \E c, d \in Calls :
        /\ c # d
        /\ ProvidersRequest \in calls[c].reqs
        /\ ProvidersRequest \in calls[d].reqs
        /\ calls[c].state = "resolved"
        /\ calls[c].got.kind = "array"
        /\ calls[c].got.items = ProvidersV1
        /\ calls[d].got.kind = "array"
        /\ calls[d].got.items = ProvidersV2
        /\ authProviders.items = ProvidersV2
        /\ calls[c].val = [kind |-> "idp", idp |-> ProvidersV2[2]]

\* the record of the user addRemoveProjectUser is aimed at, as the service
\* holds it
Target(users) == users[FindUid(users, "u-1")]

\* two lists hold every project id the same number of times
SameMembership(l1, l2) ==
    /\ Len(l1) = Len(l2)
    /\ \A id \in ProjectIds : Count(l1, id) = Count(l2, id)

\* the invocation is an addRemoveProjectUser that found its user
FoundUser(call) == call.op = "addRemoveProjectUser" /\ call.got.kind = "user"

\* the step in which the PUT of invocation c is answered with the record the
\* service stored
StoresUser(c) ==
    /\ calls[c].op = "addRemoveProjectUser"
    /\ calls[c].pc = "put"
    /\ calls'[c].state = "resolved"
    /\ calls'[c].val.kind = "user"

\* C8, as the specification states it: a call that fetched a list containing
\* p and was asked to add p has issued no PUT, and neither has a call that
\* fetched a list without p and was asked for anything else.
C8_NoWriteWhenMember ==
    \A c \in Calls :
        FoundUser(calls[c]) =>
            LET n == Count(calls[c].got.projectId, calls[c].arg.projectId)
            IN  /\ (calls[c].arg.action = "add" /\ n >= 1) => ~HasPut(calls[c])
                /\ (calls[c].arg.action # "add" /\ n = 0) => ~HasPut(calls[c])

\* C8, amended: a PUT is issued only with a list that differs from the fetched
\* one in how often it holds some id; none is issued by an add that fetched a
\* list holding p exactly once, nor by another action that fetched a list
\* without p. A stored add leaves the service holding p exactly once, the
\* state in which the next add finds nothing to write, and the service's
\* records change in no other step.
C8_NoRedundantWrite ==
    /\ [](\A c \in Calls :
            FoundUser(calls[c]) =>
                LET n == Count(calls[c].got.projectId, calls[c].arg.projectId)
                IN  /\ HasPut(calls[c]) =>
                            ~SameMembership(calls[c].body.projectId,
                                            calls[c].got.projectId)
                    /\ (calls[c].arg.action = "add" /\ n = 1) => ~HasPut(calls[c])
                    /\ (calls[c].arg.action # "add" /\ n = 0) => ~HasPut(calls[c])
                    /\ ~HasPut(calls[c]) => Cardinality(calls[c].reqs) = 1)
    /\ [][/\ \A c \in Calls :
                StoresUser(c) =>
                    /\ Target(srvUsers').projectId = calls[c].body.projectId
                    /\ calls[c].arg.action = "add" =>
                           Count(Target(srvUsers').projectId,
                                 calls[c].arg.projectId) = 1
          /\ srvUsers' # srvUsers => \E c \in Calls : StoresUser(c)]_vars

\* an add resolved with the user's record after its GET alone, having fetched
\* a list which holds p once and is longer than any list the service held at
\* first: the list an earlier add wrote
C8_Witness ==
    \E c \in Calls :
        /\ FoundUser(calls[c])
        /\ calls[c].arg.action = "add"
        /\ calls[c].state = "resolved"
        /\ calls[c].val.kind = "user"
        /\ ~HasPut(calls[c])
        /\ Cardinality(calls[c].reqs) = 1
        /\ Count(calls[c].got.projectId, calls[c].arg.projectId) = 1
        /\ Len(calls[c].got.projectId) = MaxProjects + 1
        /\ Target(srvUsers).projectId = calls[c].val.projectId

\* C9: the list of the payload a call builds holds p exactly once when the
\* action is "add" and not at all for any other action, and holds every other
\* id as often as the fetched list does, whatever the fetched list holds.
C9_PayloadList ==
    \A c \in Calls :
        (FoundUser(calls[c]) /\ calls[c].body.kind = "userUpdate") =>
            LET p == calls[c].arg.projectId
                before == calls[c].got.projectId
                after == calls[c].body.projectId
            IN  /\ Count(after, p) = IF calls[c].arg.action = "add" THEN 1 ELSE 0
                /\ \A id \in ProjectIds \ {p} : Count(after, id) = Count(before, id)
                /\ Len(after) = Len(before) - Count(before, p) + Count(after, p)

\* an add that fetched a list holding p twice has issued a PUT whose list
\* holds p once
C9_Witness ==
    \E c \in Calls :
        /\ FoundUser(calls[c])
        /\ calls[c].arg.action = "add"
        /\ Count(calls[c].got.projectId, calls[c].arg.projectId) = 2
        /\ HasPut(calls[c])
        /\ Count(calls[c].body.projectId, calls[c].arg.projectId) = 1

\* C10: a call that resolved with the user's record without a PUT (the lists
\* compared equal) resolved with the record exactly as it was fetched.
C10_ShortCircuitUnmodified ==
    \A c \in Calls :
        (/\ FoundUser(calls[c])
         /\ calls[c].state = "resolved"
         /\ calls[c].val.kind = "user"
         /\ ~HasPut(calls[c])) => calls[c].val = calls[c].got

\* C5: an invocation one of whose round trips failed, and which has no
\* continuation left to run, has settled as a failure carrying the cause.
C5_FailuresSurface ==
    \A c \in Calls :
        (calls[c].pc = "done" /\ calls[c].err \in TransportFailures) =>
            /\ calls[c].state = "rejected"
            /\ calls[c].val = Failure(calls[c].err)

\* the methods that check an enumerated argument
EnumChecked == {"getStudies", "createStudy", "addRemoveStudyPermission"}

\* the invocation was made with an argument outside the values its method
\* documents
InvalidEnum(call) ==
    CASE call.op = "getStudies" ->
             call.arg.category \notin {"Organization", "My Studies"}
      [] call.op = "createStudy" ->
             \/ call.arg.category \notin {"Organization", "My Studies"}
             \/ call.arg.studyType \notin {"unstructured", "structured"}
      [] call.op = "addRemoveStudyPermission" ->
             \/ call.arg.permissionLevel \notin {"readonly", "admin"}
             \/ call.arg.action \notin {"add", "remove"}
      [] OTHER -> FALSE

\* C11: a call of getStudies, createStudy or addRemoveStudyPermission with an
\* argument outside its enumeration fails in the call itself, with a message
\* and without a promise, and issues no request; with valid arguments the call
\* issues exactly one request (none under dryrun for createStudy and
\* addRemoveStudyPermission, which then resolve with the body built), and the
\* invocation issues none later.
C11_EnumValidation ==
    /\ [](\A c \in Calls :
            calls[c].op \in EnumChecked =>
                IF InvalidEnum(calls[c])
                THEN /\ calls[c].state = "thrown"
                     /\ calls[c].pc = "done"
                     /\ calls[c].val.kind = "message"
                     /\ calls[c].reqs = {}
                ELSE /\ calls[c].state # "thrown"
                     /\ Cardinality(calls[c].reqs) <= 1
                     /\ calls[c].reqs = {} =>
                            /\ calls[c].op # "getStudies"
                            /\ calls[c].state = "resolved"
                            /\ calls[c].val = calls[c].body)
    /\ [][\A c \in Calls :
            /\ (Starts(c) /\ calls'[c].op \in EnumChecked) =>
                   IF InvalidEnum(calls'[c])
                   THEN NewRequests(c) = {} /\ calls'[c].state = "thrown"
                   ELSE Cardinality(NewRequests(c)) =
                            IF dryrun /\ calls'[c].op # "getStudies" THEN 0 ELSE 1
            /\ ~Over(calls[c]) => NewRequests(c) = {}]_vars

\* with dryrun set, an addRemoveStudyPermission called with a valid level
\* and an action outside the enumeration has thrown its message and has
\* issued no request
C11_Witness ==
    \E c \in Calls :
        /\ dryrun
        /\ calls[c].op = "addRemoveStudyPermission"
        /\ calls[c].arg.permissionLevel = "admin"
        /\ calls[c].arg.action = "clear"
        /\ calls[c].state = "thrown"
        /\ calls[c].val.text = "Invalid action"
        /\ calls[c].reqs = {}

\* a login whose credential request was answered with a token and whose
\* profile request then failed
ProfileFailed(call) ==
    /\ call.op = "login"
    /\ call.tok # Undefined
    /\ call.pc = "done"
    /\ call.err \in TransportFailures

\* the step in which the profile request of login invocation c fails
ProfileFails(c) ==
    /\ calls[c].op = "login"
    /\ calls[c].pc = "profile"
    /\ calls'[c].err \in TransportFailures

\* C12: when the profile request of a login fails after its credential
\* request succeeded, the step leaves the session token as it is (the token
\* stored when the credential request was answered, unless another login has
\* stored its own since) and issues no request; the login is over with its two
\* requests and has not resolved; and an authenticated call made with the
\* token set sends exactly that token.
C12_LoginNotAtomic ==
    /\ [](\A c \in Calls :
            ProfileFailed(calls[c]) =>
                /\ calls[c].state # "resolved"
                /\ calls[c].val # Profile
                /\ Cardinality(calls[c].reqs) = 2
                /\ token \in Tokens)
    /\ [][/\ \A c \in Calls :
                /\ ProfileFails(c) =>
                       /\ token' = token
                       /\ token' # Undefined
                       /\ ProfileFailed(calls'[c])
                       /\ \A d \in Calls : NewRequests(d) = {}
                /\ (Starts(c) /\ calls'[c].op = "getProjects") =>
                       /\ Cardinality(NewRequests(c)) = 1
                       /\ \A r \in NewRequests(c) : r.auth = token
          /\ token' # token =>
                 \E c \in Calls : StoresToken(c) /\ token' = calls'[c].tok]_vars

\* the profile request of a login failed; the session still holds the token
\* that login was answered with, and a getProjects has sent it
C12_Witness ==
    \E c, d \in Calls :
        /\ ProfileFailed(calls[c])
        /\ calls[c].state = "pending"
        /\ token = calls[c].tok
        /\ calls[d].op = "getProjects"
        /\ \E r \in calls[d].reqs : r.auth = token

====
